---- MODULE Spec2Model ----
(***************************************************************************)
(* The reconciliation loop of the Macadam extension (src/src/extension.ts):*)
(* monitorMachines / updateMachines / registerProviderFor, with the three  *)
(* module-level maps, the listener set, the provider's aggregate status    *)
(* and the connections registered with the host.                           *)
(*                                                                         *)
(* JavaScript runs every continuation to its next await without            *)
(* interleaving, so one action is one such run: from the event that        *)
(* resumes the code (a timer, a command's result, a configuration write's  *)
(* result) to the next suspension point.                                   *)
(***************************************************************************)
EXTENDS Integers, Sequences, FiniteSets, TLC

\* Machine identities (MachineJSON.Image) the inventory command may report.
Images == {"a", "b"}

\* Iteration order of the identities (insertion order of the Map is abstracted
\* to one fixed order).
ImageOrder == <<"a", "b">>

\* Callbacks that may subscribe, named in the order in which they do.
ListenerIds == <<"l1", "l2">>

\* Number of connection handles the host hands out in a model run; once they
\* are used up registerContainerProviderConnection throws.
MaxHandles == 2

Handles == 1..MaxHandles

\* Number of failures the environment injects in a model run: a failing
\* inventory read, a throwing listener, a throwing registration, a rejected
\* configuration write.
MaxFaults == 1

\* Number of calls made from outside the reconciliation loop in a model run:
\* lifecycle operations invoked by the host and status changes by an external
\* actor.
MaxCalls == 1

\* What Map.get gives for a key without entry (undefined). A Map is modelled as
\* a function whose domain is its key set.
NoEntry == "none"

\* extensionApi.ProviderConnectionStatus values the pass derives.
ConnectionStatus == {"started", "stopped", "starting"}

\* One record of the parsed `macadam list` output; only the fields the
\* reconciler branches on are kept, the resource and ssh attributes are
\* carried opaquely by MachineInfoOf.
MachineJSON == [Image : Images, Running : BOOLEAN, Starting : BOOLEAN]

\* Parsed inventories: sequences of records with pairwise distinct identities,
\* listed in the tool's order.
Snapshots ==
  {s \in UNION {[1..n -> MachineJSON] : n \in 0..Cardinality(Images)} :
     \A i, j \in DOMAIN s :
       i < j => \E p, q \in DOMAIN ImageOrder :
                  /\ p < q
                  /\ ImageOrder[p] = s[i].Image
                  /\ ImageOrder[q] = s[j].Image}

\* Values that getExecutable / process.exec / JSON.parse may throw:
\* an Error-like object with a message, an object without message, a string,
\* or any other value (undefined, a number).
ThrownValues ==
  { [kind |-> "object", hasMessage |-> TRUE,  text |-> "boom"],
    [kind |-> "object", hasMessage |-> FALSE, text |-> ""],
    [kind |-> "string", hasMessage |-> FALSE, text |-> "boom"],
    [kind |-> "other",  hasMessage |-> FALSE, text |-> ""] }

\* The three awaited configuration writes of registerProviderFor, in order.
ConfigKeys == <<"machine.cpus", "machine.memory", "machine.diskSize">>

\* A field of a thrown value that is not there (undefined).
Undefined == "<undefined>"

\* Failures of process.exec or getExecutable in a lifecycle operation: values
\* whose name, message and stderr fields are absent, empty or a text.
RunErrors ==
  [name : {Undefined, "", "E1"}, message : {Undefined, "boom"},
   stderr : {Undefined, "oops"}]

\* The inventories read while the host calls lifecycle operations: those of a
\* tool that manages the one machine "a".
HostSnapshots == {s \in Snapshots : \A i \in DOMAIN s : s[i].Image = "a"}

\* The operations of a connection's lifecycle object (lines 192-205).
ConnectionOps == {"start", "stop", "delete"}

\* The lifecycle operations of a connection and the factory's create.
LifecycleOps == ConnectionOps \cup {"create"}

\* Values of params['macadam.factory.machine.image-path']: absent, the empty
\* string, an absolute path and a file name without directory.
ImagePaths == {Undefined, "", "/d/img", "img"}

\* 1024 * 1024
MiB == 1048576

\* Values of params['macadam.factory.machine.memory'], in bytes: absent (0
\* stands for undefined, both are falsy), 1 MiB, 3 MiB, 4 MiB.
MemoryInputs == {0, MiB, 3 * MiB, 4 * MiB}

\* Values of params['macadam.factory.machine.cpus']: absent (0) or 2.
CpusInputs == {0, 2}

\* Values of params['macadam.factory.machine.diskSize'], in bytes: absent (0)
\* or 1 GiB.
DiskSizeInputs == {0, 1024 * MiB}

\* The configurations the factory's create is called with.
CreateParams ==
  [imagePath : ImagePaths, memory : MemoryInputs, cpus : CpusInputs,
   diskSize : DiskSizeInputs]

\* Value of `params` after a step that called no create; also the
\* configuration without any input.
NoParams == [imagePath |-> Undefined, memory |-> 0, cpus |-> 0, diskSize |-> 0]

VARIABLES
  pc,                      \* monitorMachines: "timer" | "list" | "creating"
  macadamMachinesInfo,     \* Map<string, MachineInfo>
  macadamMachinesStatuses, \* Map<string, ProviderConnectionStatus>
  currentConnections,      \* Map<string, Disposable>: identity -> handle
  listeners,               \* Set<StatusHandler>, in insertion order
  providerStatus,          \* provider.status (aggregate)
  isLinux,                 \* extensionApi.env.isLinux
  machineListOutput,       \* updateMachines: {list, error} of the last read
  machinesToRemove,        \* updateMachines: local, live across the await
  passTasks,               \* handles whose creation the pending Promise.all awaits
  regImage,                \* host: handle -> identity of the registered connection
  disposeCount,            \* host: handle -> number of dispose() calls
  task,                    \* handle -> the await its registerProviderFor call is at
  faults,                  \* environment: failures injected so far
  readThrew,               \* history: the inventory read of this pass threw inside the reader
  lastPass,                \* history: how the pass ended ("completed",
                           \*   "listenerThrew", "creationFailed"), "none" while one runs
  notifications,           \* history: listener calls made by the step just taken
  gone,                    \* history: handles the removed machines had when the pass saw them missing
  createStarted,           \* history: identities whose creation the step just taken invoked
  createWanted,            \* history: connectionsToCreate of the step just taken
  settled,                 \* history: the creation the step just taken settled
  outsideCalls,                   \* environment: calls from outside the loop made so far
  op,                      \* the lifecycle operation awaiting its command, or "none"
  thrown,                  \* history: what the lifecycle operation of the step just taken threw
  params,                  \* history: the configuration of the create the step just taken called
  parameters               \* history: the argument list the operation the step just taken
                           \*   called built for its command

vars == <<pc, macadamMachinesInfo, macadamMachinesStatuses, currentConnections,
          listeners, providerStatus, isLinux, machineListOutput,
          machinesToRemove, passTasks, regImage, disposeCount, task, faults,
          readThrew, lastPass, notifications, gone, createStarted,
          createWanted, settled, outsideCalls, op, thrown, params,
          parameters>>

----------------------------------------------------------------------------
\* Helpers on maps and sequences

\* Value of `settled` after a step that settled no creation.
NoneSettled == [handle |-> 0, outcome |-> "none", orphan |-> FALSE]

\* Value of `thrown` after a step in which no lifecycle operation threw.
NoThrown ==
  [kind |-> "none", lines |-> <<>>,
   cause |-> [name |-> Undefined, message |-> Undefined, stderr |-> Undefined]]

Keys(map) == DOMAIN map

EmptyMap == [m \in {} |-> NoEntry]

\* Map.has, Map.get (for a key with an entry), Map.set, Map.delete of a key set
Has(map, k) == k \in DOMAIN map

MapSet(map, k, v) == [x \in DOMAIN map \cup {k} |-> IF x = k THEN v ELSE map[x]]

MapDelete(map, ks) == [x \in DOMAIN map \ ks |-> map[x]]

ImagesOf(list) == {list[i].Image : i \in DOMAIN list}

Range(s) == {s[i] : i \in DOMAIN s}

\* The members of S in iteration order.
RECURSIVE InOrderFrom(_, _)
InOrderFrom(S, i) ==
  IF i > Len(ImageOrder) THEN <<>>
  ELSE (IF ImageOrder[i] \in S THEN <<ImageOrder[i]>> ELSE <<>>)
       \o InOrderFrom(S, i + 1)

InOrder(S) == InOrderFrom(S, 1)

\* Position of x in sequence s (0 when absent).
IndexOf(s, x) ==
  IF \E i \in DOMAIN s : s[i] = x
  THEN CHOOSE i \in DOMAIN s : s[i] = x
  ELSE 0

----------------------------------------------------------------------------
\* Pure functions of the pass

\* utils.ts getErrorMessage: String(err.message) for an object carrying a
\* message, the string itself for a string, '' for anything else.
getErrorMessage(err) ==
  IF err.kind = "object" /\ err.hasMessage THEN err.text
  ELSE IF err.kind = "string" THEN err.text
  ELSE ""

\* A variant of lines 258-265 in which the running flag decides first.
StatusOfRunningFirst(machine) ==
  IF machine.Running = TRUE THEN "started"
  ELSE IF machine.Starting = TRUE THEN "starting"
  ELSE "stopped"

\* updateMachines, lines 258-265: the per-machine status of a record.
StatusOf(machine) ==
  LET running == machine.Running = TRUE
      status == IF running THEN "started" ELSE "stopped"
      starting == machine.Starting = TRUE
  IN IF starting THEN "starting" ELSE status

\* A variant of line 214 whose default for an identity without entry is
\* stopped.
StatusAccessorStoppedWhenGone(statuses, image) ==
  IF Has(statuses, image) THEN statuses[image] ELSE "stopped"

\* registerProviderFor, line 214: the status accessor of the connection of
\* `image`, reading the status map `statuses`.
StatusAccessor(statuses, image) ==
  IF Has(statuses, image) THEN statuses[image] ELSE "unknown"

\* updateMachines, lines 276-284: the MachineInfo stored for a record.
MachineInfoOf(machine) == [image |-> machine.Image]

\* listeners.forEach(listener => listener(image, status)), line 270, when
\* `made` calls were made before in this pass and call number throwAt (0: none)
\* throws: the calls made, and whether the exception left forEach.
Notify(ls, image, status, made, throwAt) ==
  LET throwsHere == throwAt > made /\ throwAt <= made + Len(ls)
      last == IF throwsHere THEN throwAt - made ELSE Len(ls)
  IN [calls |-> [k \in 1..last |->
                   [listener |-> ls[k], image |-> image, status |-> status]],
      threw |-> throwsHere]

\* updateMachines, lines 257-289: the loop over the records, from record i on.
RECURSIVE ForMachines(_, _, _, _, _, _, _)
ForMachines(list, i, ls, statuses, info, calls, throwAt) ==
  IF i > Len(list)
  THEN [statuses |-> statuses, info |-> info, calls |-> calls, threw |-> FALSE]
  ELSE
    LET machine == list[i]
        status == StatusOf(machine)
        previousStatus == IF Has(statuses, machine.Image)
                          THEN statuses[machine.Image] ELSE NoEntry
        fanout == Notify(ls, machine.Image, status, Len(calls), throwAt)
        info1 == MapSet(info, machine.Image, MachineInfoOf(machine))
    IN IF previousStatus # status
       THEN IF fanout.threw
            THEN [statuses |-> statuses, info |-> info,
                  calls |-> calls \o fanout.calls, threw |-> TRUE]
            ELSE ForMachines(list, i + 1, ls,
                             MapSet(statuses, machine.Image, status),
                             info1, calls \o fanout.calls, throwAt)
       ELSE ForMachines(list, i + 1, ls,
                        IF ~Has(statuses, machine.Image)
                        THEN MapSet(statuses, machine.Image, status)
                        ELSE statuses,
                        info1, calls, throwAt)

\* Number of listener calls the loop makes when no listener throws.
CallsOf(list, ls, statuses, info) ==
  Len(ForMachines(list, 1, ls, statuses, info, <<>>, 0).calls)

\* updateMachines, lines 292-294.
MachinesToRemove(statuses, list) ==
  {machine \in Keys(statuses) : machine \notin ImagesOf(list)}

\* updateMachines, lines 300-302.
ConnectionsToCreate(statuses, connections) ==
  {machineStatusKey \in Keys(statuses) : ~Has(connections, machineStatusKey)}

\* A variant of lines 303-316 that creates the connections one after another
\* (for ... of with await) and so stops at the first one that throws.
CreationsUntilFirstFailure(toCreate, info, regFails) ==
  {machineName \in toCreate :
     /\ Has(info, machineName)
     /\ \A other \in toCreate \cap regFails :
          IndexOf(ImageOrder, machineName) <= IndexOf(ImageOrder, other)}

\* updateMachines, lines 303-316: connectionsToCreate.map(async ...) calls the
\* creation of every identity that has a MachineInfo, whether or not an earlier
\* one threw (each call is its own promise).
CreationsInvoked(toCreate, info, regFails) ==
  {machineName \in toCreate : Has(info, machineName)}

\* updateMachines, lines 319-325: dispose and forget the connections of the
\* removed machines.
DisposeRemoved(connections, dcount, toRemove) ==
  [connections |-> MapDelete(connections, toRemove),
   disposeCount |->
     [h \in DOMAIN dcount |->
        IF \E m \in toRemove \cap Keys(connections) : connections[m] = h
        THEN dcount[h] + 1 ELSE dcount[h]]]

\* A variant of lines 343-354 in which a running machine counts as running
\* also while it is starting (machines.some(machine => machine.Running)).
AggregateStatusRunningFirst(list, linux, status) ==
  IF linux THEN status
  ELSE IF Len(list) = 0
       THEN (IF status # "configuring" THEN "installed" ELSE status)
       ELSE IF \E i \in DOMAIN list : list[i].Running THEN "ready"
            ELSE IF \E i \in DOMAIN list : list[i].Starting THEN "starting"
            ELSE "configured"

\* updateMachines, lines 331-361: the aggregate provider status after a pass.
AggregateStatus(list, linux, status) ==
  IF linux THEN status
  ELSE IF Len(list) = 0
       THEN (IF status # "configuring" THEN "installed" ELSE status)
       ELSE LET atLeastOneMachineRunning ==
                  \E i \in DOMAIN list : list[i].Running /\ ~list[i].Starting
                atLeastOneMachineStarting ==
                  \E i \in DOMAIN list : list[i].Starting
            IN IF atLeastOneMachineRunning THEN "ready"
               ELSE IF atLeastOneMachineStarting THEN "starting"
               ELSE "configured"

\* A variant of registerProviderFor without line 227.
StatusAfterRegistrationUntouched(registered, status) == status

\* registerProviderFor, line 227: provider.updateStatus('ready') after every
\* registration, on the provider (the aggregate status).
StatusAfterRegistration(registered, status) ==
  IF Len(registered) > 0 THEN "ready" ELSE status

\* A variant of monitorMachines without the try/catch: the exception ends the
\* loop and no timer is armed.
PcAfterUncaughtThrow == "stopped"

\* monitorMachines, lines 371-379: an exception of updateMachines is caught, the
\* loop waits for the timer and calls itself again.
PcAfterThrow == "timer"

\* monitorMachines, lines 372-379: after a pass that returned normally.
PcAfterReturn == "timer"

----------------------------------------------------------------------------
\* State after activate(): the maps are empty, the provider was created with
\* status 'unknown' and monitorMachines awaits its first inventory read.

Init ==
  /\ pc = "list"
  /\ macadamMachinesInfo = EmptyMap
  /\ macadamMachinesStatuses = EmptyMap
  /\ currentConnections = EmptyMap
  /\ listeners = <<>>
  /\ providerStatus = "unknown"
  /\ isLinux \in BOOLEAN
  /\ machineListOutput = [list |-> <<>>, error |-> ""]
  /\ machinesToRemove = {}
  /\ passTasks = {}
  /\ regImage = <<>>
  /\ disposeCount = <<>>
  /\ task = <<>>
  /\ faults = 0
  /\ readThrew = FALSE
  /\ lastPass = "none"
  /\ notifications = <<>>
  /\ gone = {}
  /\ createStarted = {}
  /\ createWanted = {}
  /\ settled = NoneSettled
  /\ outsideCalls = 0
  /\ op = "none"
  /\ thrown = NoThrown
  /\ params = NoParams
  /\ parameters = <<>>

----------------------------------------------------------------------------
\* Actions

\* Status notification interface: subscribe(handler) adds a callback to the
\* listener set (a Set keeps one copy, in insertion order).
Subscribe ==
  /\ Len(listeners) < Len(ListenerIds)
  /\ listeners' = Append(listeners, ListenerIds[Len(listeners) + 1])
  /\ settled' = NoneSettled
  /\ notifications' = <<>>
  /\ createStarted' = {}
  /\ createWanted' = {}
  /\ UNCHANGED <<pc, macadamMachinesInfo, macadamMachinesStatuses,
                 currentConnections, providerStatus, isLinux, machineListOutput,
                 machinesToRemove, passTasks, regImage, disposeCount, task,
                 faults, readThrew, lastPass, gone, outsideCalls, op>>
  /\ thrown' = NoThrown
  /\ params' = NoParams
  /\ parameters' = <<>>

\* timeout(5000) resolves: monitorMachines calls itself, and the new call runs
\* into updateMachines up to the await of the inventory read.
TimerFires ==
  /\ pc = "timer"
  /\ pc' = "list"
  /\ machineListOutput' = [list |-> <<>>, error |-> ""]
  /\ readThrew' = FALSE
  /\ lastPass' = "none"
  /\ gone' = {}
  /\ settled' = NoneSettled
  /\ notifications' = <<>>
  /\ createStarted' = {}
  /\ createWanted' = {}
  /\ UNCHANGED <<macadamMachinesInfo, macadamMachinesStatuses,
                 currentConnections, listeners, providerStatus, isLinux,
                 machinesToRemove, passTasks, regImage, disposeCount, task,
                 faults, outsideCalls, op>>
  /\ thrown' = NoThrown
  /\ params' = NoParams
  /\ parameters' = <<>>

\* The outcomes of the loop over the records: one per listener call that may
\* throw, and the one in which none throws.
LoopOutcomes(list) ==
  {ForMachines(list, 1, listeners, macadamMachinesStatuses,
               macadamMachinesInfo, <<>>, throwAt) :
     throwAt \in IF faults < MaxFaults
                 THEN 0..CallsOf(list, listeners, macadamMachinesStatuses,
                                 macadamMachinesInfo)
                 ELSE {0}}

\* updateMachines from line 318 to its end, when Promise.all has resolved.
PassTail(connections, toRemove, list, status) ==
  LET d == DisposeRemoved(connections, disposeCount, toRemove)
  IN /\ currentConnections' = d.connections
     /\ disposeCount' = d.disposeCount
     /\ providerStatus' = AggregateStatus(list, isLinux, status)
     /\ pc' = PcAfterReturn
     /\ lastPass' = "completed"
     /\ machinesToRemove' = {}
     /\ passTasks' = {}

\* updateMachines, lines 291-316, after a loop that ended with `loop`: the
\* machines to remove, the statuses left, the connections to create, the
\* creations invoked and, in order, the identities whose registration succeeds.
CreationPlan(list, loop, regFails) ==
  LET toRemove == MachinesToRemove(loop.statuses, list)
      statuses1 == MapDelete(loop.statuses, toRemove)
      connectionsToCreate == ConnectionsToCreate(statuses1, currentConnections)
      invoked == CreationsInvoked(connectionsToCreate, loop.info, regFails)
  IN [toRemove |-> toRemove,
      statuses |-> statuses1,
      connectionsToCreate |-> connectionsToCreate,
      invoked |-> invoked,
      registered |-> InOrder(invoked \ regFails)]

\* updateMachines from the result of getJSONMachineList to the next suspension:
\* the loop over the records, the removal of the statuses of missing machines,
\* the synchronous part of every registerProviderFor call (registration,
\* provider.updateStatus('ready'), the first configuration write issued), and,
\* when Promise.all settles at once, the rest of the pass.
\*   loop:     the outcome of the loop over the records
\*   regFails: the identities whose registration throws
\*   plan:     CreationPlan(list, loop, regFails)
RunPass(list, error, threw, loop, regFails, plan) ==
  LET toRemove == plan.toRemove
      statuses1 == plan.statuses
      connectionsToCreate == plan.connectionsToCreate
      invoked == plan.invoked
      registered == plan.registered
      newHandles == (Len(regImage) + 1)..(Len(regImage) + Len(registered))
      status1 == StatusAfterRegistration(registered, providerStatus)
      \* registrations refused because the handles are used up
      refused == IF Cardinality(invoked) > MaxHandles - Len(regImage)
                 THEN Cardinality(invoked) - (MaxHandles - Len(regImage))
                 ELSE 0
      injected == (IF threw \/ loop.threw THEN 1 ELSE 0)
                  + (IF Cardinality(regFails) > refused
                     THEN Cardinality(regFails) - refused ELSE 0)
  IN /\ faults + injected <= MaxFaults
     /\ faults' = faults + injected
     /\ machineListOutput' = [list |-> list, error |-> error]
     /\ readThrew' = threw
     /\ notifications' = loop.calls
     /\ macadamMachinesInfo' = loop.info
     /\ settled' = NoneSettled
     /\ thrown' = NoThrown
     /\ params' = NoParams
     /\ parameters' = <<>>
     /\ UNCHANGED <<listeners, isLinux, outsideCalls, op>>
     /\ IF loop.threw
        THEN \* a listener threw: the exception leaves updateMachines
             /\ regFails = {}
             /\ macadamMachinesStatuses' = loop.statuses
             /\ pc' = PcAfterThrow
             /\ lastPass' = "listenerThrew"
             /\ createStarted' = {}
             /\ createWanted' = {}
             /\ UNCHANGED <<currentConnections, providerStatus,
                            machinesToRemove, passTasks, regImage,
                            disposeCount, task, gone>>
        ELSE /\ regFails \subseteq connectionsToCreate
             /\ Len(regImage) + Len(registered) <= MaxHandles
             /\ macadamMachinesStatuses' = statuses1
             /\ gone' = {currentConnections[m] :
                           m \in toRemove \cap Keys(currentConnections)}
             /\ createWanted' = connectionsToCreate
             /\ createStarted' = invoked
             /\ regImage' = regImage \o registered
             /\ task' = task \o [k \in 1..Len(registered) |-> ConfigKeys[1]]
             /\ IF invoked \cap regFails # {}
                THEN \* Promise.all rejects with the first rejection
                     /\ pc' = PcAfterThrow
                     /\ lastPass' = "creationFailed"
                     /\ providerStatus' = status1
                     /\ disposeCount' = disposeCount \o [k \in 1..Len(registered) |-> 0]
                     /\ machinesToRemove' = {}
                     /\ passTasks' = {}
                     /\ UNCHANGED currentConnections
                ELSE IF Len(registered) > 0
                THEN \* suspended at await Promise.all
                     /\ pc' = "creating"
                     /\ providerStatus' = status1
                     /\ disposeCount' = disposeCount \o [k \in 1..Len(registered) |-> 0]
                     /\ machinesToRemove' = toRemove
                     /\ passTasks' = newHandles
                     /\ UNCHANGED <<currentConnections, lastPass>>
                ELSE \* nothing to await: the pass runs to its end
                     /\ PassTail(currentConnections, toRemove, list, status1)

\* process.exec(macadamCli, ['list']) resolved and its stdout parsed; the
\* command wrote nothing to stderr, so the error string stays ''.
ListCommandReturns(list) ==
  /\ pc = "list"
  /\ \E loop \in LoopOutcomes(list) :
       \E regFails \in SUBSET (ImagesOf(list) \ Keys(currentConnections)) :
         \E plan \in {CreationPlan(list, loop, regFails)} :
           RunPass(list, "", FALSE, loop, regFails, plan)

\* getExecutable, process.exec or JSON.parse threw err inside
\* getJSONMachineList: the catch returns the empty list with the message.
ListCommandFails(err) ==
  /\ pc = "list"
  /\ \E loop \in LoopOutcomes(<<>>) :
       \E plan \in {CreationPlan(<<>>, loop, {})} :
         RunPass(<<>>, getErrorMessage(err), TRUE, loop, {}, plan)

\* A creation whose registerProviderFor call is suspended at a configuration
\* write.
InFlight(h) == h \in DOMAIN task /\ IndexOf(ConfigKeys, task[h]) > 0

\* registerProviderFor, lines 233-237: the awaited configuration write of
\* creation h resolved. After the last one the handle is stored in
\* currentConnections; when that settles the pass's Promise.all, updateMachines
\* resumes and runs to its end.
ConfigurationUpdateReturns(h) ==
  /\ InFlight(h)
  /\ LET k == IndexOf(ConfigKeys, task[h])
         connections1 == MapSet(currentConnections, regImage[h], h)
     IN IF k < Len(ConfigKeys)
        THEN /\ task' = [task EXCEPT ![h] = ConfigKeys[k + 1]]
             /\ settled' = NoneSettled
             /\ UNCHANGED <<pc, currentConnections, providerStatus,
                            machinesToRemove, passTasks, disposeCount,
                            lastPass>>
        ELSE /\ task' = [task EXCEPT ![h] = "settled"]
             /\ settled' = [handle |-> h, outcome |-> "stored",
                            orphan |-> h \notin passTasks]
             /\ IF passTasks = {h}
                THEN PassTail(connections1, machinesToRemove,
                              machineListOutput.list, providerStatus)
                ELSE /\ currentConnections' = connections1
                     /\ passTasks' = passTasks \ {h}
                     /\ UNCHANGED <<pc, providerStatus, machinesToRemove,
                                    disposeCount, lastPass>>
  /\ notifications' = <<>>
  /\ createStarted' = {}
  /\ createWanted' = {}
  /\ thrown' = NoThrown
  /\ params' = NoParams
  /\ parameters' = <<>>
  /\ UNCHANGED <<macadamMachinesInfo, macadamMachinesStatuses, listeners,
                 isLinux, machineListOutput, regImage, faults, readThrew, gone,
                 outsideCalls, op>>

\* registerProviderFor, lines 233-235: the awaited configuration write of
\* creation h rejected. The call ends without storing its handle; when it is one
\* of the pass's creations, Promise.all rejects, the exception leaves
\* updateMachines and the other creations of the pass stay in flight.
ConfigurationUpdateFails(h) ==
  /\ InFlight(h)
  /\ faults < MaxFaults
  /\ faults' = faults + 1
  /\ task' = [task EXCEPT ![h] = "settled"]
  /\ settled' = [handle |-> h, outcome |-> "rejected",
                 orphan |-> h \notin passTasks]
  /\ IF h \in passTasks
     THEN /\ pc' = PcAfterThrow
          /\ lastPass' = "creationFailed"
          /\ passTasks' = {}
          /\ machinesToRemove' = {}
     ELSE UNCHANGED <<pc, lastPass, passTasks, machinesToRemove>>
  /\ notifications' = <<>>
  /\ createStarted' = {}
  /\ createWanted' = {}
  /\ thrown' = NoThrown
  /\ params' = NoParams
  /\ parameters' = <<>>
  /\ UNCHANGED <<macadamMachinesInfo, macadamMachinesStatuses,
                 currentConnections, listeners, providerStatus, isLinux,
                 machineListOutput, regImage, disposeCount, readThrew, gone,
                 outsideCalls, op>>

\* The lines a normalized error message is made of: the non-empty ones of
\* name, message and stderr, in that order, each followed by a newline.
ErrorLines(runError) ==
  (IF runError.name \notin {Undefined, ""} THEN <<runError.name>> ELSE <<>>)
  \o (IF runError.message \notin {Undefined, ""} THEN <<runError.message>> ELSE <<>>)
  \o (IF runError.stderr \notin {Undefined, ""} THEN <<runError.stderr>> ELSE <<>>)

\* A variant of createVM, lines 514-517, that leaves stderr out of the message.
ThrownByCreateWithoutStderr(error) ==
  LET errorMessage ==
        (IF error.name \notin {Undefined, ""} THEN <<error.name>> ELSE <<>>)
        \o (IF error.message \notin {Undefined, ""}
            THEN <<error.message>> ELSE <<>>)
  IN IF errorMessage # <<>>
     THEN [kind |-> "string", lines |-> errorMessage, cause |-> error]
     ELSE [kind |-> "value", lines |-> <<>>, cause |-> error]

\* createVM, lines 510-517: `throw errorMessage || error`. What is thrown is
\* the string made of `lines` (kind "string") or the caught value `cause`
\* itself (kind "value").
ThrownByCreate(error) ==
  LET errorMessage == ErrorLines(error)
  IN IF errorMessage # <<>>
     THEN [kind |-> "string", lines |-> errorMessage, cause |-> error]
     ELSE [kind |-> "value", lines |-> <<>>, cause |-> error]

\* startMachine, lines 145-148, and stopMachine, lines 173-175: `throw err`.
ThrownByStartStop(err) == [kind |-> "value", lines |-> <<>>, cause |-> err]

\* lifecycle.delete, lines 199-204: no try/catch, the failure leaves the
\* operation as it is.
ThrownByDelete(err) == [kind |-> "value", lines |-> <<>>, cause |-> err]

\* What a lifecycle operation throws when its command failed with err.
ThrownBy(operation, err) ==
  CASE operation = "create" -> ThrownByCreate(err)
    [] operation = "delete" -> ThrownByDelete(err)
    [] OTHER -> ThrownByStartStop(err)

\* The aggregate status after the command of a lifecycle operation returned:
\* provider.updateStatus('started') (line 144), provider.updateStatus('stopped')
\* (line 172); createVM touches no status.
StatusAfterCommand(operation, status) ==
  IF operation = "start" THEN "started"
  ELSE IF operation = "stop" THEN "stopped"
  ELSE status

\* A variant of startMachine and stopMachine that calls provider.updateStatus
\* before the command, so that a failing command leaves the new status.
StatusSetBeforeCommand(operation, status) ==
  IF operation = "start" THEN "started"
  ELSE IF operation = "stop" THEN "stopped"
  ELSE status

\* The aggregate status after the command of a lifecycle operation failed: the
\* catch blocks rethrow without touching the provider.
StatusAfterFailedCommand(operation, status) == status

\* A variant of lifecycle.delete in which the operation itself disposes the
\* connections and forgets them.
ConnectionsAfterDisposingDelete(operation, connections) ==
  IF operation = "delete" THEN EmptyMap ELSE connections

\* The connection map after the command of a lifecycle operation returned or
\* failed: startMachine, stopMachine, lifecycle.delete and createVM touch none
\* of the module's maps.
ConnectionsAfterCommand(operation, connections) == connections

\* The argument list of the command of a connection's operation: ['start']
\* (line 141), ['stop'] (line 169), ['rm'] (line 201).
CommandOf(operation) ==
  CASE operation = "start" -> <<"start">>
    [] operation = "stop" -> <<"stop">>
    [] operation = "delete" -> <<"rm">>

\* path.dirname on the image paths considered.
Dirname(path) ==
  CASE path = "/d/img" -> "/d"
    [] path = "img" -> "."
    [] path = "" -> "."

\* path.join(dir, file) on the directories Dirname gives: the result is
\* normalized, so that a leading "." is dropped.
PathJoin(dir, file) ==
  CASE dir = "/d" -> "/d/" \o file
    [] dir = "." -> file

\* What path.dirname throws for an argument that is not a string.
DirnameTypeError ==
  [name |-> "TypeError",
   message |-> "The \"path\" argument must be of type string. Received undefined",
   stderr |-> Undefined]

\* createVM, lines 429-476: the argument list of the init command. The blocks
\* for cpus, memory and disk size are commented out (lines 437-463); the image
\* path is pushed when it is truthy, and the ssh identity path (next to the
\* image) and the user name are pushed always. Defined for an image path that
\* is a string.
CreateArguments(cfg) ==
  <<"init">>
  \o (IF cfg.imagePath # "" THEN <<cfg.imagePath>> ELSE <<>>)
  \o <<"--ssh-identity-path", PathJoin(Dirname(cfg.imagePath), "id_ed25519"),
       "--username", "core">>

\* The host calls the factory's create with configuration cfg (lines 407-414):
\* createVM builds the argument list and runs up to the await of its command.
\* Without image path, path.dirname(undefined) at line 474 throws before the
\* try block is entered and createVM rejects with that TypeError.
CreateCalled(cfg) ==
  /\ op = "none"
  /\ outsideCalls < MaxCalls
  /\ outsideCalls' = outsideCalls + 1
  /\ params' = cfg
  /\ IF cfg.imagePath = Undefined
     THEN /\ op' = "none"
          /\ parameters' = <<>>
          /\ thrown' = [kind |-> "value", lines |-> <<>>,
                        cause |-> DirnameTypeError]
     ELSE /\ op' = "create"
          /\ parameters' = CreateArguments(cfg)
          /\ thrown' = NoThrown
  /\ settled' = NoneSettled
  /\ notifications' = <<>>
  /\ createStarted' = {}
  /\ createWanted' = {}
  /\ UNCHANGED <<pc, macadamMachinesInfo, macadamMachinesStatuses,
                 currentConnections, listeners, providerStatus, isLinux,
                 machineListOutput, machinesToRemove, passTasks, regImage,
                 disposeCount, task, faults, readThrew, lastPass, gone>>

\* The host calls lifecycle.start, lifecycle.stop or lifecycle.delete of a
\* registered connection (lines 193-204); the operation runs up to the await of
\* its command.
LifecycleCalled(operation) ==
  /\ op = "none"
  /\ outsideCalls < MaxCalls
  /\ Len(regImage) > 0
  /\ outsideCalls' = outsideCalls + 1
  /\ op' = operation
  /\ thrown' = NoThrown
  /\ params' = NoParams
  /\ parameters' = CommandOf(operation)
  /\ settled' = NoneSettled
  /\ notifications' = <<>>
  /\ createStarted' = {}
  /\ createWanted' = {}
  /\ UNCHANGED <<pc, macadamMachinesInfo, macadamMachinesStatuses,
                 currentConnections, listeners, providerStatus, isLinux,
                 machineListOutput, machinesToRemove, passTasks, regImage,
                 disposeCount, task, faults, readThrew, lastPass, gone>>

\* The command of the pending lifecycle operation returned.
LifecycleCommandReturns ==
  /\ op # "none"
  /\ providerStatus' = StatusAfterCommand(op, providerStatus)
  /\ currentConnections' = ConnectionsAfterCommand(op, currentConnections)
  /\ op' = "none"
  /\ thrown' = NoThrown
  /\ params' = NoParams
  /\ parameters' = <<>>
  /\ settled' = NoneSettled
  /\ notifications' = <<>>
  /\ createStarted' = {}
  /\ createWanted' = {}
  /\ UNCHANGED <<pc, macadamMachinesInfo, macadamMachinesStatuses,
                 listeners, isLinux, machineListOutput,
                 machinesToRemove, passTasks, regImage, disposeCount, task,
                 faults, readThrew, lastPass, gone, outsideCalls>>

\* getExecutable or the command of the pending lifecycle operation threw err.
LifecycleCommandFails(err) ==
  /\ op # "none"
  /\ faults < MaxFaults
  /\ faults' = faults + 1
  /\ providerStatus' = StatusAfterFailedCommand(op, providerStatus)
  /\ currentConnections' = ConnectionsAfterCommand(op, currentConnections)
  /\ thrown' = ThrownBy(op, err)
  /\ params' = NoParams
  /\ parameters' = <<>>
  /\ op' = "none"
  /\ settled' = NoneSettled
  /\ notifications' = <<>>
  /\ createStarted' = {}
  /\ createWanted' = {}
  /\ UNCHANGED <<pc, macadamMachinesInfo, macadamMachinesStatuses,
                 listeners, isLinux, machineListOutput,
                 machinesToRemove, passTasks, regImage, disposeCount, task,
                 readThrew, lastPass, gone, outsideCalls>>

\* An actor outside the extension puts the provider into 'configuring'.
ExternalConfiguring ==
  /\ providerStatus # "configuring"
  /\ outsideCalls < MaxCalls
  /\ outsideCalls' = outsideCalls + 1
  /\ providerStatus' = "configuring"
  /\ thrown' = NoThrown
  /\ params' = NoParams
  /\ parameters' = <<>>
  /\ settled' = NoneSettled
  /\ notifications' = <<>>
  /\ createStarted' = {}
  /\ createWanted' = {}
  /\ UNCHANGED <<pc, macadamMachinesInfo, macadamMachinesStatuses,
                 currentConnections, listeners, isLinux, machineListOutput,
                 machinesToRemove, passTasks, regImage, disposeCount, task,
                 faults, readThrew, lastPass, gone, op>>

Next ==
  \/ Subscribe
  \/ TimerFires
  \/ \E list \in Snapshots : ListCommandReturns(list)
  \/ \E err \in ThrownValues : ListCommandFails(err)
  \/ \E h \in Handles : ConfigurationUpdateReturns(h)
  \/ \E h \in Handles : ConfigurationUpdateFails(h)

\* The reconciliation loop with subscribers and no call from the host.
Spec == Init /\ [][Next]_vars

\* The reconciliation loop of one machine with the host calling lifecycle
\* operations, without subscribers.
HostNext ==
  \/ TimerFires
  \/ \E list \in HostSnapshots : ListCommandReturns(list)
  \/ \E err \in ThrownValues : ListCommandFails(err)
  \/ \E h \in Handles : ConfigurationUpdateReturns(h)
  \/ \E h \in Handles : ConfigurationUpdateFails(h)
  \/ \E operation \in ConnectionOps : LifecycleCalled(operation)
  \/ \E cfg \in CreateParams : CreateCalled(cfg)
  \/ LifecycleCommandReturns
  \/ \E err \in RunErrors : LifecycleCommandFails(err)

HostSpec == Init /\ [][HostNext]_vars

\* The reconciliation loop with an external actor changing the provider's
\* status, without subscribers.
ConfiguringNext ==
  \/ TimerFires
  \/ \E list \in Snapshots : ListCommandReturns(list)
  \/ \E err \in ThrownValues : ListCommandFails(err)
  \/ \E h \in Handles : ConfigurationUpdateReturns(h)
  \/ \E h \in Handles : ConfigurationUpdateFails(h)
  \/ ExternalConfiguring

ConfiguringSpec == Init /\ [][ConfiguringNext]_vars

TypeOK ==
  /\ pc \in {"timer", "list", "creating"}
  /\ lastPass \in {"none", "completed", "listenerThrew", "creationFailed"}
  /\ (lastPass = "none") = (pc # "timer")
  /\ faults \in 0..MaxFaults
  /\ outsideCalls \in 0..MaxCalls
  /\ op \in LifecycleOps \cup {"none"}
  /\ thrown.kind \in {"none", "string", "value"}
  /\ params \in CreateParams
  /\ parameters = <<>> \/ (op # "none" /\ outsideCalls > 0)
  /\ providerStatus \in {"unknown", "installed", "configured", "ready",
                        "starting", "started", "stopped", "configuring"}
  /\ Keys(macadamMachinesInfo) \subseteq Images
  /\ \A m \in Keys(macadamMachinesStatuses) :
       macadamMachinesStatuses[m] \in ConnectionStatus
  /\ \A m \in Keys(currentConnections) : currentConnections[m] \in DOMAIN regImage
  /\ Len(regImage) <= MaxHandles
  /\ DOMAIN disposeCount = DOMAIN regImage /\ DOMAIN task = DOMAIN regImage
  /\ passTasks \subseteq DOMAIN regImage
  /\ (pc = "creating") = (passTasks # {})

----------------------------------------------------------------------------
\* Properties

\* A pass has run to the end of updateMachines and the loop awaits the timer.
PassCompleted == pc = "timer" /\ lastPass = "completed"

\* The registrations of identity m that were made and not disposed.
LiveRegistrations(m) ==
  {h \in DOMAIN regImage : regImage[h] = m /\ disposeCount[h] = 0}

\* C1: after a reconciliation pass the status map and the MachineInfo map have
\* the same keys and every key of the connection map is a key of the
\* MachineInfo map (stated for the passes that run to their end).
C1_KeySetsAgree ==
  PassCompleted =>
    /\ Keys(macadamMachinesStatuses) = Keys(macadamMachinesInfo)
    /\ Keys(currentConnections) \subseteq Keys(macadamMachinesInfo)

\* C2: when a tracked identity is missing from the snapshot of a pass, then by
\* the end of that pass its connection was disposed exactly once and the
\* identity is in none of the three maps.
C2_RemovedIsForgotten ==
  PassCompleted =>
    \A h \in gone :
      /\ disposeCount[h] = 1
      /\ regImage[h] \notin Keys(macadamMachinesInfo)
      /\ regImage[h] \notin Keys(macadamMachinesStatuses)
      /\ regImage[h] \notin Keys(currentConnections)

\* C3: a pass whose inventory read fails changes none of the three maps and
\* disposes no connection.
C3_FailedReadChangesNothing ==
  [][(pc = "list" /\ readThrew') =>
       /\ macadamMachinesInfo' = macadamMachinesInfo
       /\ macadamMachinesStatuses' = macadamMachinesStatuses
       /\ currentConnections' = currentConnections
       /\ disposeCount' = disposeCount]_vars

\* C4: at any time an identity has at most one registration that was made and
\* not disposed.
C4_OneLiveRegistration ==
  \A m \in Images : Cardinality(LiveRegistrations(m)) <= 1

\* C5: the pass that observes an identity for the first time calls no listener
\* for it: every listener call of a pass is for an identity that had a status
\* before the pass.
C5_FirstObservationSilent ==
  [][pc = "list" =>
       \A n \in Range(notifications') : Has(macadamMachinesStatuses, n.image)]_vars

\* C6: for an identity with a status before the pass, the pass calls every
\* registered listener with the identity and the new status when the status
\* derived from the snapshot differs from the stored one, and calls no listener
\* for it when it is the same.
C6_NotifiedIffChanged ==
  [][pc = "list" =>
       \A i \in DOMAIN machineListOutput'.list :
         LET machine == machineListOutput'.list[i]
             status == StatusOf(machine)
         IN Has(macadamMachinesStatuses, machine.Image) =>
              IF macadamMachinesStatuses[machine.Image] # status
              THEN \A l \in Range(listeners) :
                     [listener |-> l, image |-> machine.Image, status |-> status]
                       \in Range(notifications')
              ELSE \A n \in Range(notifications') : n.image # machine.Image]_vars

\* C7: a pass in which the creation of a connection failed has, when it ends,
\* disposed and forgotten the connections of all removed machines and set the
\* aggregate provider status from its snapshot.
C7_FailedCreationStillCleansUp ==
  (pc = "timer" /\ lastPass = "creationFailed") =>
    /\ \A h \in gone :
         /\ disposeCount[h] = 1
         /\ \A m \in Keys(currentConnections) : currentConnections[m] # h
    /\ providerStatus =
         AggregateStatus(machineListOutput.list, isLinux, providerStatus)

\* C8: a pass invokes the creation of every connection it has to create, also
\* when one of them throws, and a creation whose registration and three
\* configuration writes succeed ends with its handle stored in the connection
\* map, also when its pass was left by the failure of another creation.
C8_CreationsIndependent ==
  [][/\ (pc = "list" /\ lastPass' # "listenerThrew") =>
          createStarted' = createWanted'
     /\ settled'.outcome = "stored" =>
          /\ Has(currentConnections', regImage[settled'.handle])
          /\ currentConnections'[regImage[settled'.handle]] = settled'.handle]_vars

\* C8 witness: a creation of a pass that another creation's failure ended has
\* just succeeded and its handle is in the connection map.
C8_OrphanStored ==
  /\ settled.outcome = "stored" /\ settled.orphan
  /\ Has(currentConnections, regImage[settled.handle])
  /\ currentConnections[regImage[settled.handle]] = settled.handle

\* C9: no pass runs while a creation started by an earlier pass is in flight.
C9_PassesSerialized ==
  pc = "list" => \A h \in DOMAIN task : ~InFlight(h)

\* The timer armed by monitorMachines (timeout(5000), lines 107-111 and 376)
\* eventually fires.
LiveSpec == Spec /\ WF_vars(TimerFires)

\* C10: after every pass, whether it returned or was left by an exception,
\* another pass eventually begins.
C10_LoopKeepsRunning == (lastPass # "none") ~> (pc = "list")

\* C10 witness: a pass was left by an exception and the loop awaits the timer.
C10_ExceptionContained ==
  pc = "timer" /\ lastPass \in {"listenerThrew", "creationFailed"}

\* A step of the reconciliation loop that may touch the provider: a pass runs
\* from the inventory read on, or resumes after Promise.all and ends.
PassStep == pc' # pc \/ lastPass' # lastPass

\* The step in which a pass runs to the end of updateMachines.
PassCompletes == lastPass = "none" /\ lastPass' = "completed"

\* The aggregate status the snapshot calls for: ready if some machine is running
\* and not starting, else starting if some machine is starting, else configured
\* if there is a machine, else installed.
AggregateRule(list) ==
  IF \E i \in DOMAIN list : list[i].Running /\ ~list[i].Starting THEN "ready"
  ELSE IF \E i \in DOMAIN list : list[i].Starting THEN "starting"
  ELSE IF Len(list) > 0 THEN "configured"
  ELSE "installed"

\* C11 (as stated): off Linux, at the end of every pass that completes the
\* aggregate provider status is the one the snapshot calls for.
C11_AggregateFollowsSnapshot ==
  [][(PassCompletes /\ ~isLinux) =>
       providerStatus' = AggregateRule(machineListOutput'.list)]_vars

\* C11 (amended): off Linux, at the end of every pass that completes the
\* aggregate provider status is the one the snapshot calls for, except that a
\* pass with an empty snapshot leaves a status of configuring in place.
C11_AggregateFollowsSnapshotOrConfiguring ==
  [][(PassCompletes /\ ~isLinux) =>
       providerStatus' =
         IF Len(machineListOutput'.list) = 0 /\ providerStatus = "configuring"
         THEN "configuring"
         ELSE AggregateRule(machineListOutput'.list)]_vars

\* C11 witness: off Linux a pass completed on a snapshot whose only active
\* machine is both running and starting, and the aggregate status is starting.
C11_RunningAndStartingIsStarting ==
  /\ PassCompleted /\ ~isLinux
  /\ \E i \in DOMAIN machineListOutput.list :
       machineListOutput.list[i].Running /\ machineListOutput.list[i].Starting
  /\ providerStatus = "starting"

\* C12: a pass that runs while the aggregate provider status is configuring
\* leaves it configuring.
C12_ConfiguringKept ==
  [][(PassStep /\ providerStatus = "configuring") =>
       providerStatus' = "configuring"]_vars

\* C13: on Linux no step of a pass changes the aggregate provider status.
C13_LinuxStatusUntouched ==
  [][(PassStep /\ isLinux) => providerStatus' = providerStatus]_vars

\* The per-machine status by the flags of a record: starting when starting is
\* set, else started when running is set, else stopped.
StatusTable(running, starting) ==
  CASE starting -> "starting"
    [] ~starting /\ running -> "started"
    [] ~starting /\ ~running -> "stopped"

\* The step in which a pass runs from the result of the inventory read on.
PassRuns == pc = "list" /\ pc' # "list"

\* C14: the status a pass commits for an identity of its snapshot is the one
\* the table gives for the record's flags: every status the pass writes is
\* that value, and a pass whose loop runs to its end has written it for every
\* record.
C14_CommittedStatusIsDerived ==
  [][PassRuns =>
       \A i \in DOMAIN machineListOutput'.list :
         LET machine == machineListOutput'.list[i]
             derived == StatusTable(machine.Running, machine.Starting)
             written ==
               /\ Has(macadamMachinesStatuses', machine.Image)
               /\ \/ ~Has(macadamMachinesStatuses, machine.Image)
                  \/ macadamMachinesStatuses'[machine.Image]
                       # macadamMachinesStatuses[machine.Image]
         IN /\ written => macadamMachinesStatuses'[machine.Image] = derived
            /\ lastPass' # "listenerThrew" =>
                 /\ Has(macadamMachinesStatuses', machine.Image)
                 /\ macadamMachinesStatuses'[machine.Image] = derived]_vars

\* C14 witness: a pass has committed starting for a machine whose record is
\* both running and starting.
C14_RunningAndStartingCommitted ==
  /\ pc # "list"
  /\ \E i \in DOMAIN machineListOutput.list :
       LET machine == machineListOutput.list[i]
       IN /\ machine.Running /\ machine.Starting
          /\ Has(macadamMachinesStatuses, machine.Image)
          /\ macadamMachinesStatuses[machine.Image] = "starting"

\* C15: an inventory read that failed gave the pass an empty list and a
\* non-empty error string.
C15_FailedReadHasMessage ==
  readThrew =>
    /\ machineListOutput.list = <<>>
    /\ machineListOutput.error # ""

\* C16: a creation whose registration succeeded and whose configuration write
\* failed ends with its handle stored in the connection map.
C16_HandleKeptOnConfigFailure ==
  settled.outcome = "rejected" =>
    /\ Has(currentConnections, regImage[settled.handle])
    /\ currentConnections[regImage[settled.handle]] = settled.handle

\* C17 (as stated): once the registration of a connection succeeds, the status
\* accessor of that connection returns ready.
C17_RegisteredIsReady ==
  [][\A h \in DOMAIN regImage' \ DOMAIN regImage :
       StatusAccessor(macadamMachinesStatuses', regImage'[h]) = "ready"]_vars

\* C17 (amended): once the registration of a connection succeeds, the
\* aggregate provider status is ready, and the status accessor of that
\* connection returns the status derived from the flags of the identity's
\* record in that pass.
C17_RegisteredSetsProviderReady ==
  [][\A h \in DOMAIN regImage' \ DOMAIN regImage :
       /\ providerStatus' = "ready"
       /\ \E i \in DOMAIN machineListOutput'.list :
            LET machine == machineListOutput'.list[i]
            IN /\ machine.Image = regImage'[h]
               /\ StatusAccessor(macadamMachinesStatuses', regImage'[h])
                    = StatusTable(machine.Running, machine.Starting)]_vars

\* C17 witness: the connection of a stopped machine was just registered, the
\* aggregate status is ready and the accessor returns stopped.
C17_StoppedMachineRegistered ==
  /\ pc = "creating"
  /\ providerStatus = "ready"
  /\ \E h \in passTasks :
       /\ task[h] = ConfigKeys[1]
       /\ StatusAccessor(macadamMachinesStatuses, regImage[h]) = "stopped"

\* The fields of a failure that go into the normalized message, in the order
\* name, message, stderr.
MessageFields(failure) ==
  SelectSeq(<<failure.name, failure.message, failure.stderr>>,
            LAMBDA field : field # Undefined /\ field # "")

\* What the error normalization throws for a failure: the string of the
\* fields, each followed by a newline, or the failure itself when there is none.
Normalized(failure) ==
  [kind |-> IF MessageFields(failure) # <<>> THEN "string" ELSE "value",
   lines |-> MessageFields(failure),
   cause |-> failure]

\* C18: a start or stop whose command fails throws the normalized error.
C18_StartStopThrowNormalized ==
  [][(op \in {"start", "stop"} /\ thrown'.kind # "none") =>
       thrown' = Normalized(thrown'.cause)]_vars

\* C19: a create whose command fails throws the normalized error: the string
\* of the non-empty name, message and stderr, in that order, each followed by
\* a newline, or the failure itself when none of them is there.
C19_CreateThrowsNormalized ==
  [][(op = "create" /\ thrown'.kind # "none") =>
       thrown' = Normalized(thrown'.cause)]_vars

\* C19 witness: a create has thrown the string "E1\nboom\noops\n".
C19_ThreeLinesThrown ==
  thrown.kind = "string" /\ thrown.lines = <<"E1", "boom", "oops">>

\* C20: a start that succeeds sets the aggregate provider status to started,
\* a stop that succeeds sets it to stopped, and a start or stop whose command
\* fails leaves it as it was.
C20_StartStopStatus ==
  [][(op \in {"start", "stop"} /\ op' = "none") =>
       IF thrown'.kind = "none"
       THEN providerStatus' = (IF op = "start" THEN "started" ELSE "stopped")
       ELSE providerStatus' = providerStatus]_vars

\* C20 witness: a start has succeeded and the aggregate status is started.
C20_Started ==
  providerStatus = "started" /\ op = "none" /\ outsideCalls > 0

\* The step in which the host calls the factory's create.
CreateCalls ==
  /\ outsideCalls' > outsideCalls
  /\ op' \notin ConnectionOps
  /\ providerStatus' = providerStatus

\* C21: for every create configuration the command is built and run with an
\* argument list that starts with init and holds a flag and its value only for
\* an input that is present: for the configuration without any input it is init
\* alone.
C21_OnlyPresentInputsPassed ==
  [][CreateCalls =>
       /\ op' = "create"
       /\ Len(parameters') > 0
       /\ parameters'[1] = "init"
       /\ (/\ params'.imagePath \in {Undefined, ""}
           /\ params'.memory = 0 /\ params'.cpus = 0 /\ params'.diskSize = 0)
          => parameters' = <<"init">>]_vars

\* The memory size in MiB, rounded to an even number of MiB:
\* Math.floor((bytes / (1024 * 1024) + 1) / 2) * 2.
RoundedMiB(bytes) == ((bytes + MiB) \div (2 * MiB)) * 2

\* C22: the argument list of a create whose configuration has a memory input
\* holds the memory size in MiB rounded to an even number (4 for 3 MiB) and
\* does not hold the size in bytes.
C22_MemoryRoundedToEvenMiB ==
  [][(CreateCalls /\ params'.memory # 0) =>
       /\ ToString(RoundedMiB(params'.memory)) \in Range(parameters')
       /\ ToString(params'.memory) \notin Range(parameters')]_vars

\* C23: in the step in which a pass finds that the status of a tracked identity
\* has changed, every listener is called with the new status and the new status
\* and the machine record are committed (the calls and the commit are one step,
\* so that nothing runs in between).
C23_NotifiedThenCommitted ==
  [][PassRuns =>
       \A i \in DOMAIN machineListOutput'.list :
         LET machine == machineListOutput'.list[i]
             status == StatusOf(machine)
         IN (/\ Has(macadamMachinesStatuses, machine.Image)
             /\ macadamMachinesStatuses[machine.Image] # status) =>
              /\ \A l \in Range(listeners) :
                   [listener |-> l, image |-> machine.Image, status |-> status]
                     \in Range(notifications')
              /\ Has(macadamMachinesStatuses', machine.Image)
              /\ macadamMachinesStatuses'[machine.Image] = status
              /\ Has(macadamMachinesInfo', machine.Image)]_vars

\* C24: when a listener throws while it is told of a status change, every
\* listener is still called with that identity and status and the new status
\* is committed in that pass.
C24_ThrowingListenerIsolated ==
  [][(pc = "list" /\ lastPass' = "listenerThrew") =>
       LET n == notifications'[Len(notifications')]
       IN /\ \A l \in Range(listeners) :
               [listener |-> l, image |-> n.image, status |-> n.status]
                 \in Range(notifications')
          /\ Has(macadamMachinesStatuses', n.image)
          /\ macadamMachinesStatuses'[n.image] = n.status]_vars

\* A step of a lifecycle operation: it is called, or its command returns or
\* fails.
LifecycleStep == op' # op \/ thrown'.kind # "none"

\* C25: no step of start, stop, delete or create, successful or failed and
\* wherever it falls between the steps of a pass, changes the machine, status
\* or connection map or disposes a connection.
C25_LifecycleLeavesRegistry ==
  [][LifecycleStep =>
       /\ macadamMachinesInfo' = macadamMachinesInfo
       /\ macadamMachinesStatuses' = macadamMachinesStatuses
       /\ currentConnections' = currentConnections
       /\ disposeCount' = disposeCount]_vars

\* C25 witness: a lifecycle operation has just failed while a pass awaits its
\* inventory read, and the machine is still tracked with its connection.
C25_OperationFailedDuringPass ==
  /\ thrown.kind # "none" /\ op = "none" /\ pc = "list"
  /\ Keys(currentConnections) # {}
  /\ Keys(currentConnections) = Keys(macadamMachinesStatuses)

C27_StaleConnectionDisposed ==
  \A m \in Images :
    ([]<>(pc = "list") /\ []<>PassCompleted) =>
      []<>(~Has(currentConnections, m) \/ m \in ImagesOf(machineListOutput.list))

\* C28: off Linux, from the inventory read of a pass to the start of the next
\* pass, the aggregate provider status is ready only when a machine of the
\* snapshot is running and not starting.
C28_ReadyOnlyWithRunningMachine ==
  (~isLinux /\ pc # "list" /\ providerStatus = "ready") =>
    \E i \in DOMAIN machineListOutput.list :
      machineListOutput.list[i].Running /\ ~machineListOutput.list[i].Starting

====
